---------------------------- MODULE Spec2Model ----------------------------
(***************************************************************************)
(* Model of the docker-image crate (src/src/lib.rs): DockerImage::from_str *)
(* (a single anchored regular expression with four named capture groups),  *)
(* the Display implementation, and the lazily initialised shared regex.    *)
(*                                                                         *)
(* A string is a sequence of characters; a character is a one-character    *)
(* string, and a code point outside ASCII is written "U+XXXX".             *)
(***************************************************************************)
EXTENDS Integers, Sequences, FiniteSets, TLC

VARIABLES
    input,      \* the &str handed to DockerImage::parse
    pc,         \* position of the single-threaded caller
    result,     \* Result<DockerImage, DockerImageError> of the call
    rendered,   \* Option<String>: the Display output of the image
    image,      \* Option<DockerImage>: the value handed to Display
    once,       \* state of the lazy_static cell guarding DOCKER_IMAGE_REGEX
    regexCell,  \* Option<Regex>: the content of the lazy_static cell
    initCount,  \* how many times the initializer of the cell has run
    tpc,        \* position of every thread calling parse
    tresult     \* the Result every thread obtained

vars == <<input, pc, result, rendered, image, once, regexCell, initCount, tpc, tresult>>

---------------------------------------------------------------------------
(* Option and Result values *)

None == [some |-> FALSE]

Some(v) == [some |-> TRUE, v |-> v]

Ok(v) == [kind |-> "Ok", v |-> v]

Err(e) == [kind |-> "Err", e |-> e]

Panic == [kind |-> "Panic"]

Pending == [kind |-> "Pending"]

InvalidFormat == "InvalidFormat"

DockerImage(registry, name, tag, digest) ==
    [registry |-> registry, name |-> name, tag |-> tag, digest |-> digest]

---------------------------------------------------------------------------
(* Characters *)

Lower == {"a", "b", "c", "d", "e", "f", "g", "h", "i", "j", "k", "l", "m",
          "n", "o", "p", "q", "r", "s", "t", "u", "v", "w", "x", "y", "z"}

Upper == {"A", "B", "C", "D", "E", "F", "G", "H", "I", "J", "K", "L", "M",
          "N", "O", "P", "Q", "R", "S", "T", "U", "V", "W", "X", "Y", "Z"}

Digit == {"0", "1", "2", "3", "4", "5", "6", "7", "8", "9"}

\* U+0665 ARABIC-INDIC DIGIT FIVE: general category Nd, not ASCII.
\* U+1F680 ROCKET: the non-ASCII code point of the unit tests.
ArabicIndicFive == "U+0665"

Rocket == "U+1F680"

Space == " "

LineFeed == "U+000A"

\* The code points of general category Nd among the characters of the model.
UnicodeNd == Digit \cup {ArabicIndicFive}

---------------------------------------------------------------------------
(* The regular expression of from_str, as a syntax tree *)

Cls(set) == [t |-> "cls", set |-> set]

Lit(c) == Cls({c})

Cat(xs) == [t |-> "cat", xs |-> xs]

\* greedy repetition, max = -1 for no upper limit
Rep(x, min, max) == [t |-> "rep", x |-> x, min |-> min, max |-> max]

Star(x) == Rep(x, 0, -1)

Plus(x) == Rep(x, 1, -1)

Opt(x) == Rep(x, 0, 1)

Cap(name, x) == [t |-> "cap", name |-> name, x |-> x]

Bol == [t |-> "bol"]

Eol == [t |-> "eol"]

\* \d of a pattern in Unicode mode (the regex crate's default): \p{Nd}
PerlDigit == Cls(UnicodeNd)

LowerAlnum == Cls(Lower \cup Digit)

Sep == Cls({".", "_", "-"})

\* [a-z0-9]+(?:[._-][a-z0-9]+)*
SegmentRe == Cat(<<Plus(LowerAlnum), Star(Cat(<<Sep, Plus(LowerAlnum)>>))>>)

DigestHexLen == 64

\* the registry with its final label widened to [a-z0-9]+
RegistryRe_AnyFinalLabel ==
    Cap("registry",
        Cat(<<SegmentRe, Lit("."), Plus(LowerAlnum),
              Opt(Cat(<<Lit(":"), Plus(PerlDigit)>>))>>))

\* (?P<registry>[a-z0-9]+(?:[._-][a-z0-9]+)*\.[a-z]{2,}(?::\d+)?)
RegistryRe ==
    Cap("registry",
        Cat(<<SegmentRe, Lit("."), Rep(Cls(Lower), 2, -1),
              Opt(Cat(<<Lit(":"), Plus(PerlDigit)>>))>>))

\* the name in a group without a name: (?:..) for (?P<name>..)
NameRe_Uncaptured == Cat(<<SegmentRe, Star(Cat(<<Lit("/"), SegmentRe>>))>>)

\* (?P<name>[a-z0-9]+(?:[._-][a-z0-9]+)*(?:/[a-z0-9]+(?:[._-][a-z0-9]+)*)*)
NameRe == Cap("name", Cat(<<SegmentRe, Star(Cat(<<Lit("/"), SegmentRe>>))>>))

\* the tag class widened by ':'
TagRe_WithColon ==
    Cap("tag", Plus(Cls(Lower \cup Upper \cup Digit \cup {".", "_", "-", ":"})))

\* (?P<tag>[a-zA-Z0-9._-]+)
TagRe == Cap("tag", Plus(Cls(Lower \cup Upper \cup Digit \cup {".", "_", "-"})))

\* (?P<digest>[a-z0-9]+:[a-fA-F0-9]{64})
DigestRe ==
    Cap("digest",
        Cat(<<Plus(LowerAlnum), Lit(":"),
              Rep(Cls({"a", "b", "c", "d", "e", "f", "A", "B", "C", "D", "E", "F"}
                      \cup Digit),
                  DigestHexLen, DigestHexLen)>>))

DOCKER_IMAGE_REGEX ==
    Cat(<<Bol,
          Opt(Cat(<<RegistryRe, Lit("/")>>)),
          NameRe,
          Opt(Cat(<<Lit(":"), TagRe>>)),
          Opt(Cat(<<Lit("@"), DigestRe>>)),
          Eol>>)

GroupNames == {"registry", "name", "tag", "digest"}

---------------------------------------------------------------------------
(* Regex::new: the pattern compiles unless it is malformed *)

RECURSIVE CapNames(_)
CapNames(n) ==
    CASE n.t = "cap" -> <<n.name>> \o CapNames(n.x)
      [] n.t = "rep" -> CapNames(n.x)
      [] n.t = "cat" ->
            IF n.xs = <<>> THEN <<>>
            ELSE CapNames(Head(n.xs)) \o CapNames(Cat(Tail(n.xs)))
      [] OTHER -> <<>>

RECURSIVE WellFormed(_)
WellFormed(n) ==
    CASE n.t = "cap" -> WellFormed(n.x)
      [] n.t = "rep" ->
            /\ n.min >= 0
            /\ n.max = -1 \/ n.max >= n.min
            /\ WellFormed(n.x)
      [] n.t = "cat" -> \A i \in 1..Len(n.xs) : WellFormed(n.xs[i])
      [] OTHER -> TRUE

\* Regex::new(pattern): Err for a repetition with min > max or a group name used twice
RegexNew(pattern) ==
    LET names == CapNames(pattern) IN
    IF /\ WellFormed(pattern)
       /\ \A i, j \in 1..Len(names) : names[i] = names[j] => i = j
    THEN Ok(pattern)
    ELSE Err("Syntax")

---------------------------------------------------------------------------
(* Regex::captures: leftmost-first matching.  M yields, in order of         *)
(* preference, every way the node matches from a state; the engine's answer *)
(* is the first of them.                                                   *)

NoCaps == [g \in GroupNames |-> None]

\* $ as in engines where it also matches before a final line feed
AtEnd_BeforeFinalLineFeed(s, pos) ==
    \/ pos = Len(s) + 1
    \/ pos = Len(s) /\ s[pos] = LineFeed

\* $ without the multi-line flag: only the end of the haystack
AtEnd(s, pos) == pos = Len(s) + 1

\* ^ without the multi-line flag: only the start of the haystack
AtStart(s, pos) == pos = 1

\* a greedy repetition of one character class: the longest run first, then
\* one character less at a time, down to min
MRepCls(set, min, max, s, st) ==
    LET rest  == Len(s) - st.pos + 1
        limit == IF max = -1 \/ max > rest THEN rest ELSE max
        run   == CHOOSE n \in 0..limit :
                    /\ \A i \in 0..(n - 1) : s[st.pos + i] \in set
                    /\ n = limit \/ s[st.pos + n] \notin set
    IN  IF run < min THEN <<>>
        ELSE [k \in 1..(run - min + 1) |-> [st EXCEPT !.pos = st.pos + run - k + 1]]

RECURSIVE M(_, _, _), MAll(_, _, _), MCat(_, _, _), MRep(_, _, _, _, _), MRepAll(_, _, _, _, _)
M(n, s, st) ==
    CASE n.t = "cls" ->
            IF st.pos <= Len(s) /\ s[st.pos] \in n.set
            THEN <<[st EXCEPT !.pos = @ + 1]>>
            ELSE <<>>
      [] n.t = "bol" -> IF AtStart(s, st.pos) THEN <<st>> ELSE <<>>
      [] n.t = "eol" -> IF AtEnd(s, st.pos) THEN <<st>> ELSE <<>>
      [] n.t = "cat" -> MCat(n.xs, s, <<st>>)
      [] n.t = "rep" ->
            IF n.x.t = "cls" THEN MRepCls(n.x.set, n.min, n.max, s, st)
            ELSE MRep(n.x, n.min, n.max, s, st)
      [] n.t = "cap" ->
            LET rs == M(n.x, s, st) IN
            [i \in 1..Len(rs) |->
                [rs[i] EXCEPT !.caps[n.name] = Some(<<st.pos, rs[i].pos>>)]]

MAll(n, s, sts) ==
    IF sts = <<>> THEN <<>>
    ELSE M(n, s, Head(sts)) \o MAll(n, s, Tail(sts))

MCat(xs, s, sts) ==
    IF xs = <<>> \/ sts = <<>> THEN sts
    ELSE MCat(Tail(xs), s, MAll(Head(xs), s, sts))

MRep(x, min, max, s, st) ==
    LET stop == IF min <= 0 THEN <<st>> ELSE <<>> IN
    IF max = 0 THEN stop
    ELSE LET first == SelectSeq(M(x, s, st), LAMBDA r : r.pos > st.pos \/ min > 0)
             nmin  == IF min > 0 THEN min - 1 ELSE 0
             nmax  == IF max > 0 THEN max - 1 ELSE max
         IN  MRepAll(x, nmin, nmax, s, first) \o stop

MRepAll(x, min, max, s, sts) ==
    IF sts = <<>> THEN <<>>
    ELSE MRep(x, min, max, s, Head(sts)) \o MRepAll(x, min, max, s, Tail(sts))

\* the first start position, from the left, at which the pattern matches
RECURSIVE Search(_, _, _)
Search(re, s, start) ==
    IF start > Len(s) + 1 THEN None
    ELSE LET rs == M(re, s, [pos |-> start, caps |-> NoCaps]) IN
         IF rs # <<>>
         THEN Some([start |-> start, end |-> rs[1].pos, caps |-> rs[1].caps])
         ELSE Search(re, s, start + 1)

Captures(re, s) == Search(re, s, 1)

\* Captures::name(group).map(|m| m.as_str().to_string())
CapStr(s, captures, group) ==
    LET m == captures.caps[group] IN
    IF m.some THEN Some(SubSeq(s, m.v[1], m.v[2] - 1)) ELSE None

---------------------------------------------------------------------------
(* DockerImage::from_str and Display *)

\* the body of from_str once the lazy_static cell holds `regex`
FromStrWith(regex, s) ==
    LET captures == Captures(regex, s) IN
    IF captures.some
    THEN LET name == CapStr(s, captures.v, "name") IN
         IF ~name.some THEN Err(InvalidFormat)
         ELSE Ok(DockerImage(CapStr(s, captures.v, "registry"),
                             name.v,
                             CapStr(s, captures.v, "tag"),
                             CapStr(s, captures.v, "digest")))
    ELSE Err(InvalidFormat)

\* the initializer of the lazy_static cell: Regex::new(..).unwrap()
LazyInit == RegexNew(DOCKER_IMAGE_REGEX)

from_str(s) ==
    IF LazyInit.kind = "Ok" THEN FromStrWith(LazyInit.v, s) ELSE Panic

parse(image_str) == from_str(image_str)

\* write!(f, ..) into the String behind to_string(): appends, cannot fail
WriteRegistry(f, self) ==
    IF self.registry.some THEN f \o self.registry.v \o <<"/">> ELSE f

WriteName(f, self) == f \o self.name

\* the tag written without its separator
WriteTag_NoSeparator(f, self) ==
    IF self.tag.some THEN f \o self.tag.v ELSE f

WriteTag(f, self) ==
    IF self.tag.some THEN f \o <<":">> \o self.tag.v ELSE f

\* the '@' written whether or not there is a digest
WriteDigest_AlwaysAt(f, self) ==
    f \o <<"@">> \o (IF self.digest.some THEN self.digest.v ELSE <<>>)

WriteDigest(f, self) ==
    IF self.digest.some THEN f \o <<"@">> \o self.digest.v ELSE f

fmt(self) == WriteDigest(WriteTag(WriteName(WriteRegistry(<<>>, self), self), self), self)

---------------------------------------------------------------------------
(* The inputs of the model *)

MaxLen == 4

\* every class of the pattern, the four delimiters and two kinds of white space
Alphabet == {"a", "0", "A", ".", "/", ":", "@", Space, LineFeed}

RECURSIVE StringsOfLen(_)
StringsOfLen(n) ==
    IF n = 0 THEN {<<>>}
    ELSE {Append(s, c) : s \in StringsOfLen(n - 1), c \in Alphabet}

ShortInputs == UNION {StringsOfLen(n) : n \in 0..MaxLen}

HexCycle == <<"d", "e", "a", "d", "B", "E", "E", "F", "0", "9">>

HexRun(n) == [i \in 1..n |-> HexCycle[((i - 1) % Len(HexCycle)) + 1]]

\* references put together from a fragment per slot, well-formed or not
RegistryParts ==
    { <<>>,
      <<"a", ".", "z", "z", "/">>,
      <<"a", ".", "z", "z", ":", "0", "/">>,
      <<"a", ".", "z", "z", ":", ArabicIndicFive, "/">>,
      <<"a", ".", "z", "/">>,
      <<"a", "-", "b", ".", "z", "0", "/">>,
      <<"1", ".", "2", ":", "0", "/">>,
      <<"a", ".", "z", "z", ":", "/">>,
      <<"z", "z", "/">> }

NameParts ==
    { <<"a">>,
      <<"a", "/", "b">>,
      <<"a", "_", "b", ".", "c", "c">>,
      <<"a", ".", ".", "b">>,
      <<"A">>,
      <<"a", Rocket>> }

TagParts ==
    { <<>>,
      <<":", "0">>,
      <<":", "A", ".", "z", "-", "_">>,
      <<":">>,
      <<":", "a", ":", "b">>,
      <<":", "a", Rocket>> }

DigestParts ==
    { <<>>,
      <<"@", "s", "2", ":">> \o HexRun(DigestHexLen),
      <<"@", "s", "2", ":">> \o HexRun(DigestHexLen - 1),
      <<"@", "s", "2", ":">> \o HexRun(DigestHexLen + 1),
      <<"@", ":">> \o HexRun(DigestHexLen),
      <<"@", "S", ":">> \o HexRun(DigestHexLen),
      <<"@", "s", "2", ":">> \o HexRun(DigestHexLen - 1) \o <<"g">>,
      <<"@", "s", "2", ":">> \o HexRun(DigestHexLen - 1) \o <<Rocket>> }

Padding == {<<>>, <<Space>>, <<LineFeed>>}

StructuredInputs ==
    { r \o n \o t \o d : r \in RegistryParts, n \in NameParts,
                         t \in TagParts, d \in DigestParts }

PaddedInputs ==
    { p \o r \o <<"a">> \o t \o q :
        p \in Padding, q \in Padding,
        r \in {<<>>, <<"a", ".", "z", "z", ":", "0", "/">>},
        t \in {<<>>, <<":", "0">>, <<"@", "s", "2", ":">> \o HexRun(DigestHexLen)} }

\* strings of the unit tests and of the documentation
ExampleInputs ==
    { <<"n", "g", "i", "n", "x">>,
      <<"d", "o", "c", "k", "e", "r", ".", "i", "o">>,
      <<"d", "o", "c", "k", "e", "r", ".", "i", "o", ":", "5", "0", "0", "0">>,
      <<"d", "o", "c", "k", "e", "r", ".", "i", "o", "/", "n", "g", "i", "n", "x">>,
      <<"l", "o", "c", "a", "l", "h", "o", "s", "t", "/", "x">>,
      <<"l", "i", "b", "r", "a", "r", "y", "/", "n", "g", "i", "n", "x">>,
      <<"1", "2", "7", ".", "0", ".", "0", ".", "1", ":", "5", "0", "0", "0", "/", "x">>,
      <<"n", "g", "i", "n", "x", ":", ":", "l", "a", "t", "e", "s", "t">>,
      <<"n", "g", "i", "n", "x", ":", "l", "a", "t", "@", "e", "s", "t">>,
      <<"n", "g", "i", "n", "x", LineFeed>>,
      <<"h", "t", "t", "p", ":", "/", "/", "a", ".", "i", "o", "/", "x">> }

Inputs == ShortInputs \cup StructuredInputs \cup PaddedInputs \cup ExampleInputs

---------------------------------------------------------------------------
(* Sequential use: parse a string, then render the image it gave *)

NoThreads == <<>>

Init ==
    /\ input \in Inputs
    /\ pc = "start"
    /\ result = Pending
    /\ rendered = None
    /\ image = None
    /\ once = "INCOMPLETE"
    /\ regexCell = None
    /\ initCount = 0
    /\ tpc = NoThreads
    /\ tresult = NoThreads

\* DockerImage::parse(input), the first call of the process: it fills the cell
Parse ==
    /\ pc = "start"
    /\ result' = parse(input)
    /\ once' = IF LazyInit.kind = "Ok" THEN "COMPLETE" ELSE "POISONED"
    /\ regexCell' = IF LazyInit.kind = "Ok" THEN Some(LazyInit.v) ELSE None
    /\ initCount' = initCount + 1
    /\ pc' = "parsed"
    /\ UNCHANGED <<input, rendered, image, tpc, tresult>>

\* image.to_string() on the image parse returned
Render ==
    /\ pc = "parsed"
    /\ result.kind = "Ok"
    /\ image' = Some(result.v)
    /\ rendered' = Some(fmt(result.v))
    /\ pc' = "rendered"
    /\ UNCHANGED <<input, result, once, regexCell, initCount, tpc, tresult>>

Next == Parse \/ Render

Spec == Init /\ [][Next]_vars

---------------------------------------------------------------------------
(* Display of an image built from literal fields *)

LiteralRegistries == {None, Some(<<"a", ".", "z", "z", ":", "0">>), Some(<<>>)}

LiteralNames == {<<"a">>, <<"a", "/", "b">>, <<>>, <<"A", ":">>}

LiteralTags == {None, Some(<<"v", "1">>), Some(<<>>), Some(<<":", "@">>)}

LiteralDigests == {None, Some(<<"s", "2", ":", "d", "e">>), Some(<<"/">>)}

LiteralImages ==
    { DockerImage(r, n, t, d) : r \in LiteralRegistries, n \in LiteralNames,
                                t \in LiteralTags, d \in LiteralDigests }

InitDisplay ==
    /\ image \in {Some(i) : i \in LiteralImages}
    /\ pc = "literal"
    /\ input = <<>>
    /\ result = Pending
    /\ rendered = None
    /\ once = "INCOMPLETE"
    /\ regexCell = None
    /\ initCount = 0
    /\ tpc = NoThreads
    /\ tresult = NoThreads

\* image.to_string() on the literal image
RenderLiteral ==
    /\ pc = "literal"
    /\ rendered' = Some(fmt(image.v))
    /\ pc' = "rendered"
    /\ UNCHANGED <<input, result, image, once, regexCell, initCount, tpc, tresult>>

NextDisplay == RenderLiteral

SpecDisplay == InitDisplay /\ [][NextDisplay]_vars

---------------------------------------------------------------------------
(* Several threads calling parse on one input: the lazy_static cell *)

NThreads == 3

Threads == 1..NThreads

ConcInputs == ExampleInputs \cup PaddedInputs

InitConc ==
    /\ input \in ConcInputs
    /\ pc = "threads"
    /\ result = Pending
    /\ rendered = None
    /\ image = None
    /\ once = "INCOMPLETE"
    /\ regexCell = None
    /\ initCount = 0
    /\ tpc = [t \in Threads |-> "call"]
    /\ tresult = [t \in Threads |-> Pending]

\* a cell that lets a thread through while the initializer still runs
Deref_NoWait(t) ==
    /\ tpc[t] = "call"
    /\ IF once = "INCOMPLETE"
       THEN /\ once' = "RUNNING"
            /\ tpc' = [tpc EXCEPT ![t] = "init"]
       ELSE /\ tpc' = [tpc EXCEPT ![t] = "match"]
            /\ UNCHANGED once
    /\ UNCHANGED <<input, pc, result, rendered, image, regexCell, initCount, tresult>>

\* Deref of DOCKER_IMAGE_REGEX: the first thread to arrive runs the initializer,
\* a thread arriving while it runs waits, a later one reads the cell
Deref(t) ==
    /\ tpc[t] = "call"
    /\ once # "RUNNING"
    /\ IF once = "INCOMPLETE"
       THEN /\ once' = "RUNNING"
            /\ tpc' = [tpc EXCEPT ![t] = "init"]
            /\ UNCHANGED tresult
       ELSE IF once = "COMPLETE"
       THEN /\ tpc' = [tpc EXCEPT ![t] = "match"]
            /\ UNCHANGED <<once, tresult>>
       ELSE /\ tpc' = [tpc EXCEPT ![t] = "done"]
            /\ tresult' = [tresult EXCEPT ![t] = Panic]
            /\ UNCHANGED once
    /\ UNCHANGED <<input, pc, result, rendered, image, regexCell, initCount>>

\* the initializer: Regex::new(..).unwrap(), stored in the cell
RunInit(t) ==
    /\ tpc[t] = "init"
    /\ initCount' = initCount + 1
    /\ IF LazyInit.kind = "Ok"
       THEN /\ regexCell' = Some(LazyInit.v)
            /\ once' = "COMPLETE"
            /\ tpc' = [tpc EXCEPT ![t] = "match"]
            /\ UNCHANGED tresult
       ELSE /\ once' = "POISONED"
            /\ tpc' = [tpc EXCEPT ![t] = "done"]
            /\ tresult' = [tresult EXCEPT ![t] = Panic]
            /\ UNCHANGED regexCell
    /\ UNCHANGED <<input, pc, result, rendered, image>>

\* DOCKER_IMAGE_REGEX.captures(s) and the construction of the result
Match(t) ==
    /\ tpc[t] = "match"
    /\ tresult' = [tresult EXCEPT ![t] =
                      IF regexCell.some THEN FromStrWith(regexCell.v, input) ELSE Panic]
    /\ tpc' = [tpc EXCEPT ![t] = "done"]
    /\ UNCHANGED <<input, pc, result, rendered, image, once, regexCell, initCount>>

NextConc == \E t \in Threads : Deref(t) \/ RunInit(t) \/ Match(t)

SpecConc == InitConc /\ [][NextConc]_vars

---------------------------------------------------------------------------
(* The grammar of the specification, stated on the string itself *)

AllIn(s, set) == \A i \in 1..Len(s) : s[i] \in set

AlnumChars == Lower \cup Digit

SepChars == {".", "_", "-"}

TagChars == Lower \cup Upper \cup Digit \cup {".", "_", "-"}

HexChars == {"a", "b", "c", "d", "e", "f", "A", "B", "C", "D", "E", "F"} \cup Digit

DelimiterChars == {"/", ":", "@"}

GrammarChars == TagChars \cup DelimiterChars

Whitespace == {Space, LineFeed}

\* runs of [a-z0-9]+ joined by single characters of `joiners`
GJoined(s, joiners) ==
    /\ s # <<>>
    /\ AllIn(s, AlnumChars \cup joiners)
    /\ s[1] \in AlnumChars
    /\ s[Len(s)] \in AlnumChars
    /\ \A i \in 1..(Len(s) - 1) : s[i] \in AlnumChars \/ s[i + 1] \in AlnumChars

GSegment(s) == GJoined(s, SepChars)

GName(s) == GJoined(s, SepChars \cup {"/"})

GTag(s) == s # <<>> /\ AllIn(s, TagChars)

GDigest(s) ==
    \E k \in 2..Len(s) :
        /\ s[k] = ":"
        /\ AllIn(SubSeq(s, 1, k - 1), AlnumChars)
        /\ Len(s) - k = DigestHexLen
        /\ AllIn(SubSeq(s, k + 1, Len(s)), HexChars)

\* labels with a dot before a final label of two or more letters
GHost(s) ==
    \E k \in 2..(Len(s) - 2) :
        /\ s[k] = "."
        /\ GSegment(SubSeq(s, 1, k - 1))
        /\ AllIn(SubSeq(s, k + 1, Len(s)), Lower)

\* REGISTRY, with the port drawn from `digits`
GRegistry(s, digits) ==
    \/ GHost(s)
    \/ \E k \in 2..(Len(s) - 1) :
          /\ s[k] = ":"
          /\ GHost(SubSeq(s, 1, k - 1))
          /\ AllIn(SubSeq(s, k + 1, Len(s)), digits)

\* REFERENCE := (REGISTRY "/")? NAME (":" TAG)? ("@" DIGEST)?
GReference(s, digits) ==
    \E i \in {0} \cup {x \in 1..Len(s) : s[x] = "/"} :
    \E k \in {Len(s)} \cup {x \in i..(Len(s) - 1) : s[x + 1] = "@"} :
    \E j \in {k} \cup {x \in i..(k - 1) : s[x + 1] = ":"} :
        /\ i = 0 \/ GRegistry(SubSeq(s, 1, i - 1), digits)
        /\ GName(SubSeq(s, i + 1, j))
        /\ j = k \/ GTag(SubSeq(s, j + 2, k))
        /\ k = Len(s) \/ GDigest(SubSeq(s, k + 2, Len(s)))

HasSlash(s) == \E i \in 1..Len(s) : s[i] = "/"

\* the index of the first character of `set` in s, Len(s) + 1 when there is none
FirstOf(s, set) ==
    IF \E i \in 1..Len(s) : s[i] \in set
    THEN CHOOSE i \in 1..Len(s) : s[i] \in set /\ \A j \in 1..(i - 1) : s[j] \notin set
    ELSE Len(s) + 1

BeforeFirst(s, set) == SubSeq(s, 1, FirstOf(s, set) - 1)

Parsed == pc \in {"parsed", "rendered"}

OptLen(o, sep) == IF o.some THEN Len(o.v) + sep ELSE 0

---------------------------------------------------------------------------
(* Claims *)

\* C1: parse returns Ok exactly for the strings of the grammar of the
\* specification, whose PORT is [0-9]+, and Err(InvalidFormat) otherwise.
C1_AcceptsExactlyGrammar ==
    Parsed =>
        /\ (result.kind = "Ok") <=> GReference(input, Digit)
        /\ result.kind # "Ok" => result = Err(InvalidFormat)

\* C2: on a successful parse of an input with a '/', registry is Some(p), p
\* the text before the first '/', exactly when p matches REGISTRY (port in
\* [0-9]+); otherwise registry is None and name is the whole path.
C2_RegistryIffMatches ==
    (Parsed /\ result.kind = "Ok" /\ HasSlash(input)) =>
        LET p == BeforeFirst(input, {"/"})
            path == BeforeFirst(input, {":", "@"})
        IN  /\ (result.v.registry = Some(p)) <=> GRegistry(p, Digit)
            /\ ~GRegistry(p, Digit) =>
                  /\ result.v.registry = None
                  /\ result.v.name = path
                  /\ SubSeq(path, 1, Len(p) + 1) = p \o <<"/">>

\* C3: rendering the image a successful parse returned gives back the input,
\* character for character.
C3_RoundTrip ==
    pc = "rendered" => rendered = Some(input)

C3_Witness ==
    /\ pc = "rendered"
    /\ result.v.registry.some
    /\ result.v.tag.some
    /\ result.v.digest.some
    /\ rendered = Some(input)

\* C4: an input holding a character outside the ASCII classes of the grammar
\* is rejected with Err(InvalidFormat).
C4_ForeignCharacterRejected ==
    (Parsed /\ ~AllIn(input, GrammarChars)) => result = Err(InvalidFormat)

\* C5: parse returns Ok of a fully built image or Err(InvalidFormat), never a
\* panic: the initializer of the cell succeeds, and an Err comes only from a
\* string the regex does not match, never from a missing name group.
C5_Total ==
    Parsed =>
        /\ result.kind \in {"Ok", "Err"}
        /\ once = "COMPLETE" /\ regexCell.some
        /\ result.kind = "Err" =>
              /\ result = Err(InvalidFormat)
              /\ ~Captures(regexCell.v, input).some
        /\ result.kind = "Ok" =>
              /\ DOMAIN result.v = {"registry", "name", "tag", "digest"}
              /\ \A o \in {result.v.registry, result.v.tag, result.v.digest} :
                    o = None \/ o = Some(o.v)
              /\ result.v.name \in Seq(GrammarChars)

C5_Witness ==
    /\ pc = "parsed"
    /\ input = <<>>
    /\ result = Err(InvalidFormat)

\* C6: for any image, built from literal fields too, Display gives
\* [registry "/"] name [":" tag] ["@" digest], each bracketed part present
\* exactly when its field is Some.
C6_DisplayFormat ==
    pc = "rendered" =>
        /\ rendered.some
        /\ LET out == rendered.v
               self == image.v
               a == OptLen(self.registry, 1)
               b == a + Len(self.name)
               c == b + OptLen(self.tag, 1)
           IN  /\ Len(out) = c + OptLen(self.digest, 1)
               /\ self.registry.some =>
                     /\ SubSeq(out, 1, a - 1) = self.registry.v
                     /\ out[a] = "/"
               /\ SubSeq(out, a + 1, b) = self.name
               /\ self.tag.some =>
                     /\ out[b + 1] = ":"
                     /\ SubSeq(out, b + 2, c) = self.tag.v
               /\ self.digest.some =>
                     /\ out[c + 1] = "@"
                     /\ SubSeq(out, c + 2, Len(out)) = self.digest.v

C6_Witness ==
    /\ pc = "rendered"
    /\ image.v.registry = None
    /\ image.v.name = <<>>
    /\ image.v.tag = Some(<<":", "@">>)
    /\ image.v.digest = None
    /\ rendered = Some(<<":", ":", "@">>)

\* C7: an image returned by parse has a non-empty name, a tag that is absent
\* or a non-empty string over [A-Za-z0-9._-], and a digest that is absent or
\* [a-z0-9]+ ':' followed by exactly 64 characters of [a-fA-F0-9].
C7_FieldInvariants ==
    (Parsed /\ result.kind = "Ok") =>
        /\ result.v.name # <<>>
        /\ result.v.tag.some =>
              /\ result.v.tag.v # <<>>
              /\ AllIn(result.v.tag.v, TagChars)
              /\ \A ch \in {":", "/", "@"} : ~\E i \in 1..Len(result.v.tag.v) :
                    result.v.tag.v[i] = ch
        /\ result.v.digest.some => GDigest(result.v.digest.v)

C7_Witness ==
    /\ pc = "parsed"
    /\ result.kind = "Ok"
    /\ result.v.tag.some
    /\ result.v.digest.some

\* C8: with several threads calling parse on one input, a thread matches only
\* against the initialised cell, the initializer runs at most once, every
\* thread gets the result of a sequential call, and the cell, once filled,
\* never changes.
C8_CellSafe ==
    /\ initCount <= 1
    /\ regexCell.some <=> once = "COMPLETE"
    /\ \A t \in Threads :
          /\ tpc[t] = "match" => (once = "COMPLETE" /\ regexCell.some)
          /\ tpc[t] = "done" => tresult[t] = parse(input)

C8_Concurrent ==
    /\ []C8_CellSafe
    /\ [][regexCell.some => regexCell' = regexCell]_vars

C8_Witness ==
    /\ initCount = 1
    /\ \A t \in Threads : tpc[t] = "done" /\ tresult[t].kind = "Ok"

\* C9: the match is anchored at both ends: an accepted input is matched from
\* its first to its last character, and an input that starts or ends with
\* white space, a single trailing line feed included, is rejected.
C9_Anchored ==
    Parsed =>
        /\ result.kind = "Ok" =>
              LET m == Captures(regexCell.v, input).v
              IN  m.start = 1 /\ m.end = Len(input) + 1
        /\ (input # <<>> /\ (input[1] \in Whitespace \/ input[Len(input)] \in Whitespace))
              => result = Err(InvalidFormat)

C9_Witness ==
    /\ pc = "parsed"
    /\ input = <<"n", "g", "i", "n", "x", LineFeed>>
    /\ result = Err(InvalidFormat)

\* C10: without a '/' no registry is recognised: a successful parse has
\* registry None, a registry-shaped string is a name, host ':' digits is a
\* name and a tag; and with a '/', a first component holding a ':' after a
\* host that is no registry host is rejected.
C10_RegistryNeedsSlash ==
    Parsed =>
        LET p == BeforeFirst(input, {"/"})
            h == BeforeFirst(input, {":"})
            port == SubSeq(input, Len(h) + 2, Len(input))
        IN  /\ (~HasSlash(input) /\ result.kind = "Ok") => result.v.registry = None
            /\ (~HasSlash(input) /\ GHost(input))
                  => result = Ok(DockerImage(None, input, None, None))
            /\ (~HasSlash(input) /\ GHost(h) /\ Len(h) < Len(input)
                    /\ port # <<>> /\ AllIn(port, Digit))
                  => result = Ok(DockerImage(None, h, Some(port), None))
            /\ (HasSlash(input) /\ Len(h) < Len(p) /\ ~GHost(h))
                  => result = Err(InvalidFormat)

C10_Witness ==
    /\ pc = "parsed"
    /\ input = <<"d", "o", "c", "k", "e", "r", ".", "i", "o", ":", "5", "0", "0", "0">>
    /\ result = Ok(DockerImage(None, <<"d", "o", "c", "k", "e", "r", ".", "i", "o">>,
                               Some(<<"5", "0", "0", "0">>), None))

=============================================================================
